---- MODULE Spec2Model ----
(***************************************************************************)
(* Model of the SOS game engine (sos-game/sos): the Board, the SOS         *)
(* detection of BaseGame, the template method make_move and the two        *)
(* _after_move policies of SimpleGame and GeneralGame.                     *)
(***************************************************************************)
EXTENDS Integers, Sequences, FiniteSets, TLC

\* ------------------------------------------------------------------
\* Bounds and program constants
\* ------------------------------------------------------------------
\* Board.__init__ and Board.reset raise ValueError for n <= 2.
MaxInvalidSize == 2

\* The board size the application starts with; the games of this model
\* are played on boards of this size.
DefaultSize == 3

\* Number of opening moves of a game for which the callers pass arbitrary
\* arguments: any cell in or out of bounds, any letter, any size. Later
\* moves go to the first empty cell in row-major order with S or O; on a
\* finished game the callers try every cell of the board with S and O.
MaxFree == 2

\* models.py enumerations
None == "None"
BLUE == "BLUE"
RED == "RED"
SIMPLE == "SIMPLE"
GENERAL == "GENERAL"
EMPTY == "_"
S == "S"
O == "O"

Players == {BLUE, RED}
GameModes == {SIMPLE, GENERAL}
Letters == {EMPTY, S, O}
Sizes == {DefaultSize}

\* Player.other
Other(p) == IF p = BLUE THEN RED ELSE BLUE

\* gamecore.DIRS, in source order
DIRS == << <<-1, -1>>, <<-1, 0>>, <<-1, 1>>,
           <<0, -1>>,             <<0, 1>>,
           <<1, -1>>,  <<1, 0>>,  <<1, 1>> >>

\* dataclass SOSLine
SOSLine(r1, c1, r2, c2, r3, c3, who) ==
    [r1 |-> r1, c1 |-> c1, r2 |-> r2, c2 |-> c2, r3 |-> r3, c3 |-> c3, owner |-> who]

\* ------------------------------------------------------------------
\* Board
\* ------------------------------------------------------------------
\* the size test of Board.__init__ and Board.reset: ValueError is raised
size_raises(n) == n <= MaxInvalidSize

\* Board.__init__ for a legal size
NewBoard(sz) ==
    [n |-> sz,
     grid |-> [r \in 0..(sz - 1) |-> [c \in 0..(sz - 1) |-> EMPTY]],
     owner |-> [r \in 0..(sz - 1) |-> [c \in 0..(sz - 1) |-> None]],
     filled_count |-> 0]

\* Board.in_bounds
in_bounds(b, r, c) == 0 <= r /\ r < b.n /\ 0 <= c /\ c < b.n

\* Board.is_empty
is_empty(b, r, c) == b.grid[r][c] = EMPTY

\* Board.place without the is_empty test: an occupied cell is overwritten
place_Overwrite(b, r, c, letter, who) ==
    IF ~in_bounds(b, r, c)
    THEN [ok |-> FALSE, board |-> b]
    ELSE IF letter \notin {S, O}
    THEN [ok |-> FALSE, board |-> b]
    ELSE [ok |-> TRUE,
          board |-> [b EXCEPT !.grid[r][c] = letter,
                              !.owner[r][c] = who,
                              !.filled_count = @ + 1]]

\* Board.place that forgets to count the filled cell
place_NoCount(b, r, c, letter, who) ==
    IF ~in_bounds(b, r, c) \/ ~is_empty(b, r, c)
    THEN [ok |-> FALSE, board |-> b]
    ELSE IF letter \notin {S, O}
    THEN [ok |-> FALSE, board |-> b]
    ELSE [ok |-> TRUE,
          board |-> [b EXCEPT !.grid[r][c] = letter,
                              !.owner[r][c] = who]]

\* Board.place that does not record the owner of the cell
place_NoOwner(b, r, c, letter, who) ==
    IF ~in_bounds(b, r, c) \/ ~is_empty(b, r, c)
    THEN [ok |-> FALSE, board |-> b]
    ELSE IF letter \notin {S, O}
    THEN [ok |-> FALSE, board |-> b]
    ELSE [ok |-> TRUE,
          board |-> [b EXCEPT !.grid[r][c] = letter,
                              !.filled_count = @ + 1]]

\* Board.place: the returned flag and the board after the call
place(b, r, c, letter, who) ==
    IF ~in_bounds(b, r, c) \/ ~is_empty(b, r, c)
    THEN [ok |-> FALSE, board |-> b]
    ELSE IF letter \notin {S, O}
    THEN [ok |-> FALSE, board |-> b]
    ELSE [ok |-> TRUE,
          board |-> [b EXCEPT !.grid[r][c] = letter,
                              !.owner[r][c] = who,
                              !.filled_count = @ + 1]]

\* ------------------------------------------------------------------
\* SOS detection
\* ------------------------------------------------------------------
\* local helper cell() of _detect_sos_from
cell(b, rr, cc) == IF in_bounds(b, rr, cc) THEN b.grid[rr][cc] ELSE None

RECURSIVE Flatten(_, _)
\* out.append in loop order: the concatenation f[1] \o ... \o f[i]
Flatten(f, i) == IF i = 0 THEN << >> ELSE Flatten(f, i - 1) \o f[i]

\* the S case crediting a line to the owner of its start cell
DetectS_StartOwner(b, r, c, turn, d) ==
    LET dr == DIRS[d][1]
        dc == DIRS[d][2]
        m1r == r + dr
        m1c == c + dc
        e1r == r + 2 * dr
        e1c == c + 2 * dc
        m2r == r - dr
        m2c == c - dc
        s2r == r - 2 * dr
        s2c == c - 2 * dc
        atStart == IF in_bounds(b, e1r, e1c)
                      /\ cell(b, m1r, m1c) = O /\ cell(b, e1r, e1c) = S
                   THEN << SOSLine(r, c, m1r, m1c, e1r, e1c, b.owner[r][c]) >>
                   ELSE << >>
        atEnd == IF in_bounds(b, s2r, s2c)
                    /\ cell(b, m2r, m2c) = O /\ cell(b, s2r, s2c) = S
                 THEN << SOSLine(s2r, s2c, m2r, m2c, r, c, b.owner[s2r][s2c]) >>
                 ELSE << >>
    IN  atStart \o atEnd

\* the S case that does not look at the letter of the far end
DetectS_NoEndLetter(b, r, c, turn, d) ==
    LET dr == DIRS[d][1]
        dc == DIRS[d][2]
        m1r == r + dr
        m1c == c + dc
        e1r == r + 2 * dr
        e1c == c + 2 * dc
        m2r == r - dr
        m2c == c - dc
        s2r == r - 2 * dr
        s2c == c - 2 * dc
        atStart == IF in_bounds(b, e1r, e1c) /\ cell(b, m1r, m1c) = O
                   THEN << SOSLine(r, c, m1r, m1c, e1r, e1c, turn) >>
                   ELSE << >>
        atEnd == IF in_bounds(b, s2r, s2c)
                    /\ cell(b, m2r, m2c) = O /\ cell(b, s2r, s2c) = S
                 THEN << SOSLine(s2r, s2c, m2r, m2c, r, c, turn) >>
                 ELSE << >>
    IN  atStart \o atEnd

\* body of the loop over DIRS when the placed letter is S
DetectS(b, r, c, turn, d) ==
    LET dr == DIRS[d][1]
        dc == DIRS[d][2]
        m1r == r + dr
        m1c == c + dc
        e1r == r + 2 * dr
        e1c == c + 2 * dc
        m2r == r - dr
        m2c == c - dc
        s2r == r - 2 * dr
        s2c == c - 2 * dc
        atStart == IF in_bounds(b, e1r, e1c)
                      /\ cell(b, m1r, m1c) = O /\ cell(b, e1r, e1c) = S
                   THEN << SOSLine(r, c, m1r, m1c, e1r, e1c, turn) >>
                   ELSE << >>
        atEnd == IF in_bounds(b, s2r, s2c)
                    /\ cell(b, m2r, m2c) = O /\ cell(b, s2r, s2c) = S
                 THEN << SOSLine(s2r, s2c, m2r, m2c, r, c, turn) >>
                 ELSE << >>
    IN  atStart \o atEnd

\* the O case looking two steps away, as the S case does
DetectO_TwoSteps(b, r, c, turn, d) ==
    LET dr == DIRS[d][1]
        dc == DIRS[d][2]
        s1r == r - 2 * dr
        s1c == c - 2 * dc
        s2r == r + 2 * dr
        s2c == c + 2 * dc
    IN  IF in_bounds(b, s1r, s1c) /\ in_bounds(b, s2r, s2c)
           /\ cell(b, s1r, s1c) = S /\ cell(b, s2r, s2c) = S
        THEN << SOSLine(s1r, s1c, r, c, s2r, s2c, turn) >>
        ELSE << >>

\* body of the loop over DIRS when the placed letter is O
DetectO(b, r, c, turn, d) ==
    LET dr == DIRS[d][1]
        dc == DIRS[d][2]
        s1r == r - dr
        s1c == c - dc
        s2r == r + dr
        s2c == c + dc
    IN  IF in_bounds(b, s1r, s1c) /\ in_bounds(b, s2r, s2c)
           /\ cell(b, s1r, s1c) = S /\ cell(b, s2r, s2c) = S
        THEN << SOSLine(s1r, s1c, r, c, s2r, s2c, turn) >>
        ELSE << >>

\* BaseGame._detect_sos_from
detect_sos_from(b, r, c, turn) ==
    LET letter == b.grid[r][c]
    IN  IF letter = S
        THEN Flatten([d \in 1..Len(DIRS) |-> DetectS(b, r, c, turn, d)], Len(DIRS))
        ELSE IF letter = O
        THEN Flatten([d \in 1..Len(DIRS) |-> DetectO(b, r, c, turn, d)], Len(DIRS))
        ELSE << >>

\* ------------------------------------------------------------------
\* Rule variants
\* ------------------------------------------------------------------
\* SimpleGame._after_move without the early return after a win
SimpleAfterMove_NoReturn(self, new_lines_created) ==
    LET won == IF new_lines_created /\ ~self.is_over
               THEN [self EXCEPT !.winner = self.current_turn, !.is_over = TRUE]
               ELSE self
        sw == [won EXCEPT !.current_turn = Other(@)]
    IN  IF sw.board.filled_count = sw.board.n * sw.board.n /\ sw.winner = None
        THEN [sw EXCEPT !.is_draw = TRUE, !.is_over = TRUE]
        ELSE sw

\* SimpleGame._after_move that leaves the turn with the mover
SimpleAfterMove_NoSwitch(self, new_lines_created) ==
    IF new_lines_created /\ ~self.is_over
    THEN [self EXCEPT !.winner = self.current_turn, !.is_over = TRUE]
    ELSE IF self.board.filled_count = self.board.n * self.board.n /\ self.winner = None
         THEN [self EXCEPT !.is_draw = TRUE, !.is_over = TRUE]
         ELSE self

\* SimpleGame._after_move with the winner test of the draw check inverted
SimpleAfterMove_NoDraw(self, new_lines_created) ==
    IF new_lines_created /\ ~self.is_over
    THEN [self EXCEPT !.winner = self.current_turn, !.is_over = TRUE]
    ELSE LET sw == [self EXCEPT !.current_turn = Other(@)]
         IN  IF sw.board.filled_count = sw.board.n * sw.board.n /\ sw.winner # None
             THEN [sw EXCEPT !.is_draw = TRUE, !.is_over = TRUE]
             ELSE sw

\* SimpleGame._after_move
SimpleAfterMove(self, new_lines_created) ==
    IF new_lines_created /\ ~self.is_over
    THEN [self EXCEPT !.winner = self.current_turn, !.is_over = TRUE]
    ELSE LET sw == [self EXCEPT !.current_turn = Other(@)]
         IN  IF sw.board.filled_count = sw.board.n * sw.board.n /\ sw.winner = None
             THEN [sw EXCEPT !.is_draw = TRUE, !.is_over = TRUE]
             ELSE sw

\* GeneralGame._after_move switching the turn after every move
GeneralAfterMove_AlwaysSwitch(self, new_lines_created) ==
    LET sw == [self EXCEPT !.current_turn = Other(@)]
    IN  IF sw.board.filled_count = sw.board.n * sw.board.n
        THEN LET blue_score == sw.score[BLUE]
                 red_score == sw.score[RED]
                 dec == IF blue_score > red_score
                        THEN [sw EXCEPT !.winner = BLUE]
                        ELSE IF red_score > blue_score
                        THEN [sw EXCEPT !.winner = RED]
                        ELSE [sw EXCEPT !.is_draw = TRUE]
             IN  [dec EXCEPT !.is_over = TRUE]
        ELSE sw

\* GeneralGame._after_move comparing the scores with >=: a tie goes to BLUE
GeneralAfterMove_TieBlue(self, new_lines_created) ==
    LET sw == IF ~new_lines_created
              THEN [self EXCEPT !.current_turn = Other(@)]
              ELSE self
    IN  IF sw.board.filled_count = sw.board.n * sw.board.n
        THEN LET blue_score == sw.score[BLUE]
                 red_score == sw.score[RED]
                 dec == IF blue_score >= red_score
                        THEN [sw EXCEPT !.winner = BLUE]
                        ELSE IF red_score > blue_score
                        THEN [sw EXCEPT !.winner = RED]
                        ELSE [sw EXCEPT !.is_draw = TRUE]
             IN  [dec EXCEPT !.is_over = TRUE]
        ELSE sw

\* GeneralGame._after_move that also closes the game when a line was formed
GeneralAfterMove_EndOnLine(self, new_lines_created) ==
    LET sw == IF ~new_lines_created
              THEN [self EXCEPT !.current_turn = Other(@)]
              ELSE self
    IN  IF sw.board.filled_count = sw.board.n * sw.board.n \/ new_lines_created
        THEN LET blue_score == sw.score[BLUE]
                 red_score == sw.score[RED]
                 dec == IF blue_score > red_score
                        THEN [sw EXCEPT !.winner = BLUE]
                        ELSE IF red_score > blue_score
                        THEN [sw EXCEPT !.winner = RED]
                        ELSE [sw EXCEPT !.is_draw = TRUE]
             IN  [dec EXCEPT !.is_over = TRUE]
        ELSE sw

\* GeneralGame._after_move that leaves a full board with equal scores open
GeneralAfterMove_TieGoesOn(self, new_lines_created) ==
    LET sw == IF ~new_lines_created
              THEN [self EXCEPT !.current_turn = Other(@)]
              ELSE self
    IN  IF sw.board.filled_count = sw.board.n * sw.board.n
        THEN LET blue_score == sw.score[BLUE]
                 red_score == sw.score[RED]
             IN  IF blue_score > red_score
                 THEN [sw EXCEPT !.winner = BLUE, !.is_over = TRUE]
                 ELSE IF red_score > blue_score
                 THEN [sw EXCEPT !.winner = RED, !.is_over = TRUE]
                 ELSE sw
        ELSE sw

\* GeneralGame._after_move
GeneralAfterMove(self, new_lines_created) ==
    LET sw == IF ~new_lines_created
              THEN [self EXCEPT !.current_turn = Other(@)]
              ELSE self
    IN  IF sw.board.filled_count = sw.board.n * sw.board.n
        THEN LET blue_score == sw.score[BLUE]
                 red_score == sw.score[RED]
                 dec == IF blue_score > red_score
                        THEN [sw EXCEPT !.winner = BLUE]
                        ELSE IF red_score > blue_score
                        THEN [sw EXCEPT !.winner = RED]
                        ELSE [sw EXCEPT !.is_draw = TRUE]
             IN  [dec EXCEPT !.is_over = TRUE]
        ELSE sw

\* dynamic dispatch of the abstract hook BaseGame._after_move on the class
AfterMove(self, new_lines_created) ==
    IF self.kind = SIMPLE
    THEN SimpleAfterMove(self, new_lines_created)
    ELSE GeneralAfterMove(self, new_lines_created)

\* ------------------------------------------------------------------
\* Game engine
\* ------------------------------------------------------------------
\* BaseGame.__init__ through the factory make_game: the class follows the mode
make_game(sz, m) ==
    [mode |-> m,
     kind |-> IF m = SIMPLE THEN SIMPLE ELSE GENERAL,
     board |-> NewBoard(sz),
     current_turn |-> BLUE,
     score |-> [p \in Players |-> 0],
     lines |-> << >>,
     winner |-> None,
     is_draw |-> FALSE,
     is_over |-> FALSE]

\* step 2 of make_move adding the points to both players
ScoreLines_Both(self, new_lines) ==
    [self EXCEPT !.lines = @ \o new_lines,
                 !.score = [p \in Players |-> @[p] + Len(new_lines)]]

\* step 2 of make_move keeping only the lines of the last move
ScoreLines_Replace(self, new_lines) ==
    [self EXCEPT !.lines = new_lines,
                 !.score[self.current_turn] = @ + Len(new_lines)]

\* step 2 of make_move scoring one point per move, not per line
ScoreLines_OnePoint(self, new_lines) ==
    [self EXCEPT !.lines = @ \o new_lines,
                 !.score[self.current_turn] =
                     @ + (IF Len(new_lines) > 0 THEN 1 ELSE 0)]

\* step 2 of make_move giving the points to the other player
ScoreLines_ToOther(self, new_lines) ==
    [self EXCEPT !.lines = @ \o new_lines,
                 !.score[Other(self.current_turn)] = @ + Len(new_lines)]

\* step 2 of make_move: every new line is appended and scores one point
ScoreLines(self, new_lines) ==
    [self EXCEPT !.lines = @ \o new_lines,
                 !.score[self.current_turn] = @ + Len(new_lines)]

\* BaseGame.make_move without the is_over test
make_move_NoOverCheck(self, r, c, letter) ==
    IF letter \notin {S, O}
    THEN [ret |-> FALSE, self |-> self]
    ELSE LET placed == place(self.board, r, c, letter, self.current_turn)
         IN  IF ~placed.ok
             THEN [ret |-> FALSE, self |-> self]
             ELSE LET put == [self EXCEPT !.board = placed.board]
                      new_lines == detect_sos_from(put.board, r, c, put.current_turn)
                      scored == ScoreLines(put, new_lines)
                  IN  [ret |-> TRUE,
                       self |-> AfterMove(scored, Len(new_lines) > 0)]

\* BaseGame.make_move: the returned flag and the game after the call
make_move(self, r, c, letter) ==
    IF self.is_over
    THEN [ret |-> FALSE, self |-> self]
    ELSE IF letter \notin {S, O}
    THEN [ret |-> FALSE, self |-> self]
    ELSE LET placed == place(self.board, r, c, letter, self.current_turn)
         IN  IF ~placed.ok
             THEN [ret |-> FALSE, self |-> self]
             ELSE LET put == [self EXCEPT !.board = placed.board]
                      new_lines == detect_sos_from(put.board, r, c, put.current_turn)
                      scored == ScoreLines(put, new_lines)
                  IN  [ret |-> TRUE,
                       self |-> AfterMove(scored, Len(new_lines) > 0)]

\* start_new_game that does not clear the winner
start_new_game_KeepWinner(self, size, m) ==
    LET md == IF m # None THEN [self EXCEPT !.mode = m] ELSE self
        sz == IF size = << >> THEN md.board.n ELSE size[1]
    IN  IF size_raises(sz)
        THEN [ret |-> "ValueError", self |-> md]
        ELSE [ret |-> None,
              self |-> [md EXCEPT !.board = NewBoard(sz),
                                  !.current_turn = BLUE,
                                  !.score = [p \in Players |-> 0],
                                  !.lines = << >>,
                                  !.is_draw = FALSE,
                                  !.is_over = FALSE]]

\* start_new_game that leaves the turn where the last game ended
start_new_game_KeepTurn(self, size, m) ==
    LET md == IF m # None THEN [self EXCEPT !.mode = m] ELSE self
        sz == IF size = << >> THEN md.board.n ELSE size[1]
    IN  IF size_raises(sz)
        THEN [ret |-> "ValueError", self |-> md]
        ELSE [ret |-> None,
              self |-> [md EXCEPT !.board = NewBoard(sz),
                                  !.score = [p \in Players |-> 0],
                                  !.lines = << >>,
                                  !.winner = None,
                                  !.is_draw = FALSE,
                                  !.is_over = FALSE]]

\* Board.reset with the size test off by one: size 2 is accepted
start_new_game_AcceptTwo(self, size, m) ==
    LET md == IF m # None THEN [self EXCEPT !.mode = m] ELSE self
        sz == IF size = << >> THEN md.board.n ELSE size[1]
    IN  IF sz < MaxInvalidSize
        THEN [ret |-> "ValueError", self |-> md]
        ELSE [ret |-> None,
              self |-> [md EXCEPT !.board = NewBoard(sz),
                                  !.current_turn = BLUE,
                                  !.score = [p \in Players |-> 0],
                                  !.lines = << >>,
                                  !.winner = None,
                                  !.is_draw = FALSE,
                                  !.is_over = FALSE]]

\* Board.reset that keeps the filled count of the last game
start_new_game_KeepCount(self, size, m) ==
    LET md == IF m # None THEN [self EXCEPT !.mode = m] ELSE self
        sz == IF size = << >> THEN md.board.n ELSE size[1]
    IN  IF size_raises(sz)
        THEN [ret |-> "ValueError", self |-> md]
        ELSE [ret |-> None,
              self |-> [md EXCEPT !.board = [NewBoard(sz) EXCEPT
                                               !.filled_count = md.board.filled_count],
                                  !.current_turn = BLUE,
                                  !.score = [p \in Players |-> 0],
                                  !.lines = << >>,
                                  !.winner = None,
                                  !.is_draw = FALSE,
                                  !.is_over = FALSE]]

\* BaseGame.start_new_game with Board.reset: the optional size is << >> for
\* None (the size is kept) or <<k>>; a size <= 2 raises ValueError from
\* Board.reset after the mode was assigned
start_new_game(self, size, m) ==
    LET md == IF m # None THEN [self EXCEPT !.mode = m] ELSE self
        sz == IF size = << >> THEN md.board.n ELSE size[1]
    IN  IF size_raises(sz)
        THEN [ret |-> "ValueError", self |-> md]
        ELSE [ret |-> None,
              self |-> [md EXCEPT !.board = NewBoard(sz),
                                  !.current_turn = BLUE,
                                  !.score = [p \in Players |-> 0],
                                  !.lines = << >>,
                                  !.winner = None,
                                  !.is_draw = FALSE,
                                  !.is_over = FALSE]]

\* the cells a caller scanning the board row by row (as ComputerPlayer does)
\* finds empty, as row-major indexes
EmptyIndexes(b) ==
    {i \in 0..(b.n * b.n - 1) : b.grid[i \div b.n][i % b.n] = EMPTY}

\* the coordinates of the first empty cell in row-major order
FirstEmpty(b) ==
    LET i == CHOOSE k \in EmptyIndexes(b) : \A j \in EmptyIndexes(b) : k <= j
    IN  <<i \div b.n, i % b.n>>

\* ------------------------------------------------------------------
\* ComputerPlayer
\* ------------------------------------------------------------------
\* choose_move returns None
NoMove == << >>

\* _would_create_sos that restores the letter and the owner only
would_create_sos_KeepCount(g, ident, r, c, letter) ==
    LET orig_letter == g.board.grid[r][c]
        orig_owner == g.board.owner[r][c]
        sim == [g EXCEPT !.board.grid[r][c] = letter,
                         !.board.owner[r][c] = ident,
                         !.board.filled_count = @ + 1]
        new_lines == detect_sos_from(sim.board, r, c, sim.current_turn)
    IN  [res |-> Len(new_lines) > 0,
         game |-> [sim EXCEPT !.board.grid[r][c] = orig_letter,
                              !.board.owner[r][c] = orig_owner]]

\* ComputerPlayer._would_create_sos: the answer and the game after the
\* simulated placement was reverted
would_create_sos(g, ident, r, c, letter) ==
    LET orig_letter == g.board.grid[r][c]
        orig_owner == g.board.owner[r][c]
        orig_filled == g.board.filled_count
        sim == [g EXCEPT !.board.grid[r][c] = letter,
                         !.board.owner[r][c] = ident,
                         !.board.filled_count = @ + 1]
        new_lines == detect_sos_from(sim.board, r, c, sim.current_turn)
    IN  [res |-> Len(new_lines) > 0,
         game |-> [sim EXCEPT !.board.grid[r][c] = orig_letter,
                              !.board.owner[r][c] = orig_owner,
                              !.board.filled_count = orig_filled]]

RECURSIVE FindFrom_OFirst(_, _, _)
\* the scan trying O before S
FindFrom_OFirst(g, ident, i) ==
    IF i >= g.board.n * g.board.n
    THEN [move |-> NoMove, game |-> g]
    ELSE LET r == i \div g.board.n
             c == i % g.board.n
         IN  IF ~is_empty(g.board, r, c)
             THEN FindFrom_OFirst(g, ident, i + 1)
             ELSE LET pO == would_create_sos(g, ident, r, c, O)
                  IN  IF pO.res
                      THEN [move |-> <<r, c, O>>, game |-> pO.game]
                      ELSE LET pS == would_create_sos(pO.game, ident, r, c, S)
                           IN  IF pS.res
                               THEN [move |-> <<r, c, S>>, game |-> pS.game]
                               ELSE FindFrom_OFirst(pS.game, ident, i + 1)

RECURSIVE FindFrom(_, _, _)
\* the loops of _find_winning_move from the cell of row-major index i on:
\* each empty cell is probed with S, then with O
FindFrom(g, ident, i) ==
    IF i >= g.board.n * g.board.n
    THEN [move |-> NoMove, game |-> g]
    ELSE LET r == i \div g.board.n
             c == i % g.board.n
         IN  IF ~is_empty(g.board, r, c)
             THEN FindFrom(g, ident, i + 1)
             ELSE LET pS == would_create_sos(g, ident, r, c, S)
                  IN  IF pS.res
                      THEN [move |-> <<r, c, S>>, game |-> pS.game]
                      ELSE LET pO == would_create_sos(pS.game, ident, r, c, O)
                           IN  IF pO.res
                               THEN [move |-> <<r, c, O>>, game |-> pO.game]
                               ELSE FindFrom(pO.game, ident, i + 1)

\* ComputerPlayer._find_winning_move
find_winning_move(g, ident) == FindFrom(g, ident, 0)

\* choose_move without the fallback to the first empty cell
choose_move_NoFallback(g, ident) ==
    LET original_turn == g.current_turn
        thinking == [g EXCEPT !.current_turn = ident]
        found == find_winning_move(thinking, ident)
    IN  [move |-> found.move,
         game |-> [found.game EXCEPT !.current_turn = original_turn]]

\* ComputerPlayer.choose_move: the move returned (NoMove for None) and the
\* game after the call; the finally clause puts the turn back
choose_move(g, ident) ==
    LET original_turn == g.current_turn
        thinking == [g EXCEPT !.current_turn = ident]
        found == find_winning_move(thinking, ident)
        move == IF found.move # NoMove
                THEN found.move
                ELSE IF EmptyIndexes(found.game.board) # {}
                THEN LET rc == FirstEmpty(found.game.board)
                     IN  <<rc[1], rc[2], S>>
                ELSE NoMove
    IN  [move |-> move,
         game |-> [found.game EXCEPT !.current_turn = original_turn]]

\* a pass of the loop of _maybe_let_computer_play after make_move returned
pass_made(res) ==
    [ret |-> IF res.ret THEN "True" ELSE "False", game |-> res.self]

\* a pass of the loop after choose_move returned ch
pass_chosen(ch) ==
    IF ch.move = NoMove
    THEN [ret |-> "NoMove", game |-> ch.game]
    ELSE pass_made(make_move(ch.game, ch.move[1], ch.move[2], ch.move[3]))

\* one pass through the body of the while loop of
\* SOSApp._maybe_let_computer_play when the player on turn is a
\* ComputerPlayer: what the pass returned and the game after it
computer_step(g) == pass_chosen(choose_move(g, g.current_turn))

\* ------------------------------------------------------------------
\* GameRecorder and the recording file
\* ------------------------------------------------------------------
HUMAN == "HUMAN"
COMPUTER == "COMPUTER"
PlayerTypes == {HUMAN, COMPUTER}

\* decimal text of the numbers written to a recording
Digits == << "0", "1", "2", "3", "4", "5", "6", "7", "8", "9" >>

\* str(i) in an f-string
IntToStr(i) == Digits[i + 1]

\* int(text)
StrToInt(text) == (CHOOSE k \in 1..Len(Digits) : Digits[k] = text) - 1

\* a text line is the tuple of its fields: <<"MODE:", "SIMPLE">> is the
\* line MODE:SIMPLE and <<"BLUE", "0", "1", "S">> is the line BLUE,0,1,S
CommentLine == << "# SOS recording v1" >>

\* GameRecorder.__init__: active, and file, the lines of the file the
\* recorder writes or has closed last
NewRecorder == [active |-> FALSE, file |-> << >>]

\* GameRecorder.deactivate
deactivate(rec) == [rec EXCEPT !.active = FALSE]

\* GameRecorder.start
recorder_start(rec, size, mode, blue_type, red_type) ==
    [active |-> TRUE,
     file |-> << CommentLine,
                 <<"MODE:", mode>>,
                 <<"SIZE:", IntToStr(size)>>,
                 <<"BLUE:", blue_type>>,
                 <<"RED:", red_type>>,
                 <<"MOVES:">> >>]

\* GameRecorder.record_move writing the column before the row
record_move_Swapped(rec, player, row, col, letter) ==
    IF ~rec.active
    THEN rec
    ELSE [rec EXCEPT !.file = Append(@, <<player, IntToStr(col), IntToStr(row), letter>>)]

\* GameRecorder.record_move
record_move(rec, player, row, col, letter) ==
    IF ~rec.active
    THEN rec
    ELSE [rec EXCEPT !.file = Append(@, <<player, IntToStr(row), IntToStr(col), letter>>)]

\* GameRecorder.finish
finish(rec, winner, is_draw) ==
    IF ~rec.active
    THEN rec
    ELSE [active |-> FALSE,
          file |-> Append(rec.file,
                          IF is_draw
                          THEN <<"RESULT:", "DRAW">>
                          ELSE IF winner # None
                          THEN <<"RESULT:", winner>>
                          ELSE <<"RESULT:", "UNKNOWN">>)]

\* the state of the loop of load_recording before the first line; the
\* optional size is << >> for None or <<k>>
LoadStart ==
    [mode |-> None, size |-> << >>, blue_type |-> HUMAN, red_type |-> HUMAN,
     moves |-> << >>, result |-> None, is_draw |-> FALSE,
     reading_moves |-> FALSE, raised |-> FALSE]

\* the body of the loop of load_recording for one line
LoadLine(acc, line) ==
    IF acc.raised
    THEN acc
    ELSE IF line = CommentLine
    THEN acc
    ELSE IF line[1] = "MODE:"
    THEN IF line[2] \in GameModes
         THEN [acc EXCEPT !.mode = line[2]]
         ELSE [acc EXCEPT !.raised = TRUE]
    ELSE IF line[1] = "SIZE:"
    THEN [acc EXCEPT !.size = <<StrToInt(line[2])>>]
    ELSE IF line[1] = "BLUE:"
    THEN [acc EXCEPT !.blue_type = line[2]]
    ELSE IF line[1] = "RED:"
    THEN [acc EXCEPT !.red_type = line[2]]
    ELSE IF line[1] = "MOVES:"
    THEN [acc EXCEPT !.reading_moves = TRUE]
    ELSE IF line[1] = "RESULT:"
    THEN IF line[2] = "DRAW"
         THEN [acc EXCEPT !.reading_moves = FALSE, !.is_draw = TRUE, !.result = None]
         ELSE IF line[2] \in Players
         THEN [acc EXCEPT !.reading_moves = FALSE, !.is_draw = FALSE, !.result = line[2]]
         ELSE [acc EXCEPT !.raised = TRUE]
    ELSE IF acc.reading_moves
    THEN IF Len(line) # 4
         THEN acc
         ELSE IF line[1] \in Players /\ line[4] \in Letters
         THEN [acc EXCEPT !.moves = Append(@,
                   [player |-> line[1], row |-> StrToInt(line[2]),
                    col |-> StrToInt(line[3]), letter |-> line[4]])]
         ELSE [acc EXCEPT !.raised = TRUE]
    ELSE acc

RECURSIVE LoadLines(_, _, _)
\* the loop of load_recording over the lines i.. of the file
LoadLines(file, i, acc) ==
    IF i > Len(file) THEN acc ELSE LoadLines(file, i + 1, LoadLine(acc, file[i]))

\* the end of load_recording: raised is TRUE when the call ends with an
\* exception
load_checked(acc) ==
    IF acc.raised \/ acc.mode = None \/ acc.size = << >>
    THEN [acc EXCEPT !.raised = TRUE]
    ELSE acc

\* load_recording
load_recording(file) == load_checked(LoadLines(file, 1, LoadStart))

\* ------------------------------------------------------------------
\* SOSApp: the handlers work on u = [game, app]
\* ------------------------------------------------------------------
\* SOSApp.__init__: the player types (the players dictionary follows the
\* two radio variables through _update_player_types), the recorder, and
\* the replay state; replay_rest is _replay_moves[_replay_index:] while a
\* replay is active, the moves _replay_next_move will still apply;
\* results_shown is the number of result dialogs _handle_game_end has
\* shown for the game on the board
AppInit ==
    [blue_type |-> HUMAN,
     red_type |-> HUMAN,
     recorder |-> NewRecorder,
     replay_active |-> FALSE,
     replay_rest |-> << >>,
     results_shown |-> 0]

\* self.players[p].is_human()
is_human(a, p) == (IF p = BLUE THEN a.blue_type ELSE a.red_type) = HUMAN

\* SOSApp._record_move
ui_record_move(u, player, r, c, letter) ==
    IF u.app.recorder.active /\ ~u.app.replay_active
    THEN [u EXCEPT !.app.recorder = record_move(@, player, r, c, letter)]
    ELSE u

\* SOSApp._handle_game_end
handle_game_end(u) ==
    [u EXCEPT !.app.recorder = finish(@, u.game.winner, u.game.is_draw),
              !.app.results_shown = @ + 1]

\* "if self.game.is_over and not self.replay_active: self._handle_game_end()"
end_if_over(u) ==
    IF u.game.is_over /\ ~u.app.replay_active
    THEN handle_game_end(u)
    ELSE u

\* the same statement without the test of is_over
end_always(u) ==
    IF ~u.app.replay_active
    THEN handle_game_end(u)
    ELSE u

RECURSIVE computer_loop(_)
\* a pass of the while loop after make_move returned res for the move
loop_made(u, current_player, move, res) ==
    IF ~res.ret
    THEN [u EXCEPT !.game = res.self]
    ELSE computer_loop(ui_record_move([u EXCEPT !.game = res.self],
                                      current_player, move[1], move[2], move[3]))

\* a pass of the while loop after choose_move returned ch
loop_chosen(u, current_player, ch) ==
    IF ch.move = NoMove
    THEN [u EXCEPT !.game = ch.game]
    ELSE loop_made(u, current_player, ch.move,
                   make_move(ch.game, ch.move[1], ch.move[2], ch.move[3]))

\* the while loop of _maybe_let_computer_play
computer_loop(u) ==
    IF u.game.is_over
    THEN u
    ELSE IF is_human(u.app, u.game.current_turn)
    THEN u
    ELSE loop_chosen(u, u.game.current_turn,
                     choose_move(u.game, u.game.current_turn))

\* _maybe_let_computer_play that reports the end of the game without
\* looking at is_over
maybe_let_computer_play_AlwaysEnd(u) ==
    IF u.app.replay_active
    THEN u
    ELSE end_always(computer_loop(u))

\* SOSApp._maybe_let_computer_play
maybe_let_computer_play(u) ==
    IF u.app.replay_active
    THEN u
    ELSE end_if_over(computer_loop(u))

\* SOSApp._update_player_types after the radio variables were set
update_player_types(u, blue_type, red_type) ==
    [u EXCEPT !.app.blue_type = blue_type, !.app.red_type = red_type]

\* the smallest size on_new_game passes on
MinUiSize == 3

\* on_new_game from the call of recorder.deactivate on
new_game_made(u, size, mode, record) ==
    maybe_let_computer_play(
        IF record
        THEN [u EXCEPT !.app.recorder =
                 recorder_start(deactivate(@), size, mode,
                                u.app.blue_type, u.app.red_type)]
        ELSE [u EXCEPT !.app.recorder = deactivate(@)])

\* SOSApp.on_new_game with the spinbox value, the selected mode, and
\* record: the box "Record game" is ticked and a path was chosen
on_new_game(u, size_var, mode_var, record) ==
    LET size == IF size_var > MinUiSize THEN size_var ELSE MinUiSize
        mode == IF mode_var = SIMPLE THEN SIMPLE ELSE GENERAL
    IN  new_game_made(
            [u EXCEPT !.app.replay_active = FALSE,
                      !.app.replay_rest = << >>,
                      !.app.results_shown = 0,
                      !.game = start_new_game(make_game(size, mode), <<size>>, mode).self],
            size, mode, record)

\* on_cell_click recording the move before it looks at what make_move
\* returned
click_made_RecordRejected(u, current_player, r, c, letter, res) ==
    IF ~res.ret
    THEN ui_record_move([u EXCEPT !.game = res.self],
                        current_player, r, c, letter)
    ELSE end_if_over(
             maybe_let_computer_play(
                 ui_record_move([u EXCEPT !.game = res.self],
                                current_player, r, c, letter)))

\* on_cell_click after make_move returned res
click_made(u, current_player, r, c, letter, res) ==
    IF ~res.ret
    THEN [u EXCEPT !.game = res.self]
    ELSE end_if_over(
             maybe_let_computer_play(
                 ui_record_move([u EXCEPT !.game = res.self],
                                current_player, r, c, letter)))

\* the letter of the radio variable of the player on turn
chosen_letter(letter_choice) == IF letter_choice = S THEN S ELSE O

\* SOSApp.on_cell_click with the letter selected for the player on turn
on_cell_click(u, r, c, letter_choice) ==
    IF u.app.replay_active
    THEN u
    ELSE IF u.game.is_over
    THEN u
    ELSE IF ~is_human(u.app, u.game.current_turn)
    THEN u
    ELSE click_made(u, u.game.current_turn, r, c, chosen_letter(letter_choice),
                    make_move(u.game, r, c, chosen_letter(letter_choice)))

\* on_replay after load_recording returned data
replay_loaded(u, data) ==
    IF data.raised
    THEN u
    ELSE IF data.moves = << >>
    THEN [u EXCEPT !.app.blue_type = data.blue_type,
                   !.app.red_type = data.red_type,
                   !.game = start_new_game(make_game(data.size[1], data.mode),
                                           data.size, data.mode).self,
                   !.app.replay_rest = << >>,
                   !.app.results_shown = 0,
                   !.app.replay_active = FALSE]
    ELSE [u EXCEPT !.app.blue_type = data.blue_type,
                   !.app.red_type = data.red_type,
                   !.game = start_new_game(make_game(data.size[1], data.mode),
                                           data.size, data.mode).self,
                   !.app.replay_rest = data.moves,
                   !.app.results_shown = 0,
                   !.app.replay_active = TRUE,
                   !.app.recorder = deactivate(@)]

\* SOSApp.on_replay; picked is FALSE when the file dialog is cancelled,
\* else the file the recorder has written is opened
on_replay(u, picked) ==
    IF ~picked
    THEN [u EXCEPT !.app.recorder = deactivate(@)]
    ELSE replay_loaded([u EXCEPT !.app.recorder = deactivate(@)],
                       load_recording(u.app.recorder.file))

\* _replay_next_move after make_move returned res
replay_made(u, res) ==
    IF Len(u.app.replay_rest) > 1
    THEN [u EXCEPT !.game = res.self, !.app.replay_rest = Tail(@)]
    ELSE [u EXCEPT !.game = res.self, !.app.replay_rest = Tail(@),
                   !.app.replay_active = FALSE]

\* the move at _replay_index with the turn forced to its player
replay_move(g, move) ==
    make_move([g EXCEPT !.current_turn = move.player],
              move.row, move.col, move.letter)

\* SOSApp._replay_next_move
replay_next_move(u) ==
    IF ~u.app.replay_active
    THEN u
    ELSE IF u.app.replay_rest = << >>
    THEN [u EXCEPT !.app.replay_active = FALSE]
    ELSE replay_made(u, replay_move(u.game, Head(u.app.replay_rest)))

\* ------------------------------------------------------------------
\* State machine
\* ------------------------------------------------------------------
VARIABLES game, ret, app

vars == <<game, ret, app>>

\* construction through make_game: Board.__init__ raises for a size <= 2
\* and no game exists then
Init ==
    /\ \E sz \in Sizes \cup {MaxInvalidSize}, m \in GameModes :
           ~size_raises(sz) /\ game = make_game(sz, m)
    /\ ret = "init"
    /\ app = AppInit

\* the callers pass arbitrary arguments
FreePhase == ~game.is_over /\ game.board.filled_count < MaxFree

\* the coordinates the callers of make_move pass
MoveTargets ==
    IF FreePhase
    THEN (-1..game.board.n) \X (-1..game.board.n)
    ELSE IF game.is_over
    THEN (0..(game.board.n - 1)) \X (0..(game.board.n - 1))
    ELSE {FirstEmpty(game.board)}

\* the letters the callers of make_move pass
MoveLetters == IF FreePhase THEN Letters ELSE {S, O}

\* the optional sizes the callers of start_new_game pass
SizeArgs ==
    {<< >>} \cup {<<k>> : k \in Sizes}
            \cup (IF FreePhase \/ game.is_over THEN {<<MaxInvalidSize>>} ELSE {})

MakeMove ==
    \E rc \in MoveTargets, letter \in MoveLetters :
        LET r == rc[1]
            c == rc[2]
            res == make_move(game, r, c, letter)
        IN  /\ game' = res.self
            /\ ret' = IF res.ret THEN "True" ELSE "False"
            /\ UNCHANGED app

StartNewGame ==
    \E size \in SizeArgs, m \in {None} \cup GameModes :
        LET res == start_new_game(game, size, m)
        IN  /\ game' = res.self
            /\ ret' = res.ret
            /\ UNCHANGED app

\* a computer player of either identity is asked for a move
ChooseMove ==
    \E ident \in Players :
        LET res == choose_move(game, ident)
        IN  /\ game' = res.game
            /\ ret' = IF res.move = NoMove THEN "NoMove" ELSE "Move"
            /\ UNCHANGED app

Next == MakeMove \/ StartNewGame

Spec == Init /\ [][Next]_vars

\* games in which a computer player is asked for moves between the moves
NextCpu == MakeMove \/ ChooseMove

SpecCpu == Init /\ [][NextCpu]_vars

\* a move with arbitrary arguments at the opening of a game
OpeningMove == FreePhase /\ MakeMove

\* the loop of _maybe_let_computer_play with a ComputerPlayer on either
\* side, one pass per step
ComputerMove ==
    /\ ~game.is_over
    /\ LET st == computer_step(game)
       IN  /\ game' = st.game
           /\ ret' = st.ret
           /\ UNCHANGED app

\* games that computer players play to the end, after at most MaxFree
\* moves made by other callers; the while loop keeps taking passes
NextAuto == OpeningMove \/ ComputerMove

\* weak fairness of ComputerMove, WF_vars(ComputerMove), with its enabling
\* condition written out: a pass is possible exactly while the loop
\* condition "not self.game.is_over" holds
LoopFairness == []<>(game.is_over) \/ []<><<ComputerMove>>_vars

SpecAuto == Init /\ [][NextAuto]_vars /\ LoopFairness

\* ------------------------------------------------------------------
\* The application: the user's events and the replay timer
\* ------------------------------------------------------------------
\* SOSApp.__init__: a SimpleGame of the default size, two human players
InitUI ==
    /\ game = make_game(DefaultSize, SIMPLE)
    /\ ret = "init"
    /\ app = AppInit

\* the state the handlers work on
UI == [game |-> game, app |-> app]

\* A handler has returned: the window holds the state it left
Returned(u) ==
    /\ game' = u.game
    /\ app' = u.app
    /\ UNCHANGED ret

\* the user's events come freely at the opening of a game, during its
\* first MaxFree moves
Opening == game.board.filled_count < MaxFree

\* the buttons the user clicks: the first empty cell and, at the opening,
\* the top-left cell
ClickTargets ==
    (IF Opening THEN {<<0, 0>>} ELSE {})
        \cup (IF EmptyIndexes(game.board) = {} THEN {<<0, 0>>}
              ELSE {FirstEmpty(game.board)})

\* The model keeps one recording, the file the recorder writes or has
\* written for the game on the board: when a handler leaves another game
\* on the board and the recorder, not recording, has not written to its
\* file, the file is one of a game gone by and is put away
Shelve(before, after) ==
    IF /\ ~after.app.recorder.active
       /\ after.app.recorder.file = before.app.recorder.file
       /\ after.game # before.game
    THEN [after EXCEPT !.app.recorder.file = << >>]
    ELSE after

\* a new game that is not recorded leaves no recording of the game on the
\* board
PutAway(after, record) ==
    IF ~record
    THEN [after EXCEPT !.app.recorder.file = << >>]
    ELSE after

OnCellClick ==
    \E rc \in ClickTargets, letter_choice \in {S, O} :
        Returned(Shelve(UI, on_cell_click(UI, rc[1], rc[2], letter_choice)))

\* New Game is pressed at the opening of a game or when it is over
OnNewGame ==
    /\ Opening \/ game.is_over
    /\ \E size_var \in Sizes, mode_var \in GameModes, record \in BOOLEAN :
           Returned(PutAway(on_new_game(UI, size_var, mode_var, record), record))

\* the radio buttons are used at the opening of a game
UpdatePlayerTypes ==
    /\ Opening
    /\ ~app.replay_active
    /\ \E blue_type \in PlayerTypes, red_type \in PlayerTypes :
           Returned(update_player_types(UI, blue_type, red_type))

\* Replay is pressed at the opening of a game or when it is over; a file
\* can be picked when the recorder has written one
OnReplay ==
    /\ Opening \/ game.is_over
    /\ ~app.replay_active
    /\ \E picked \in {FALSE} \cup {app.recorder.file # << >>} :
           Returned(on_replay(UI, picked))

\* the timer set by self.after(500, self._replay_next_move) fires
ReplayNextMove ==
    /\ app.replay_active
    /\ Returned(replay_next_move(UI))

NextUI ==
    \/ OnCellClick
    \/ OnNewGame
    \/ UpdatePlayerTypes
    \/ OnReplay
    \/ ReplayNextMove

SpecUI == InitUI /\ [][NextUI]_vars

\* ------------------------------------------------------------------
\* Geometry of the board, independent of the detection algorithm
\* ------------------------------------------------------------------
Cells(b) == (0..(b.n - 1)) \X (0..(b.n - 1))

\* one direction per axis: horizontal, vertical and the two diagonals
AXES == { <<0, 1>>, <<1, 0>>, <<1, 1>>, <<1, -1>> }

\* the triples of collinear adjacent in-bounds cells of the board
Triples(b) ==
    { << a, <<a[1] + d[1], a[2] + d[2]>>, <<a[1] + 2 * d[1], a[2] + 2 * d[2]>> >> :
        <<a, d>> \in { ad \in Cells(b) \X AXES :
            in_bounds(b, ad[1][1] + 2 * ad[2][1], ad[1][2] + 2 * ad[2][2]) } }

LetterAt(b, rc) == b.grid[rc[1]][rc[2]]

\* the triples that read S,O,S
SOSTriples(b) ==
    { t \in Triples(b) :
        LetterAt(b, t[1]) = S /\ LetterAt(b, t[2]) = O /\ LetterAt(b, t[3]) = S }

TripleCells(t) == {t[1], t[2], t[3]}

\* the S-O-S triples that contain the cell rc
SOSThrough(b, rc) == { t \in SOSTriples(b) : rc \in TripleCells(t) }

\* the three cells a recorded SOSLine covers
LineCells(ln) == { <<ln.r1, ln.c1>>, <<ln.r2, ln.c2>>, <<ln.r3, ln.c3>> }

\* the step is an accepted make_move
Moved ==
    /\ ret' = "True"
    /\ game'.board.filled_count = game.board.filled_count + 1

\* the cell an accepted make_move has placed
PlacedCell ==
    CHOOSE rc \in Cells(game.board) : LetterAt(game.board, rc) # LetterAt(game'.board, rc)

\* the number of S-O-S lines the accepted move has completed
Completed == Cardinality(SOSThrough(game'.board, PlacedCell))

Full(b) == b.filled_count = b.n * b.n

\* ------------------------------------------------------------------
\* Claims
\* ------------------------------------------------------------------
\* the arguments of make_move that the code rejects
Rejected(g, r, c, letter) ==
    \/ g.is_over
    \/ letter = EMPTY
    \/ ~in_bounds(g.board, r, c)
    \/ ~is_empty(g.board, r, c)

C1_Query ==
    /\ \A r \in -1..game.board.n, c \in -1..game.board.n, letter \in Letters :
           Rejected(game, r, c, letter) =>
               LET res == make_move(game, r, c, letter)
               IN  res.ret = FALSE /\ res.self = game
    /\ ~game.is_over =>
           \A rc \in Cells(game.board) :
               is_empty(game.board, rc[1], rc[2]) =>
                   LET nxt == make_move(game, rc[1], rc[2], S)
                   IN  /\ nxt.ret = TRUE
                       /\ nxt.self.board.owner[rc[1]][rc[2]] = game.current_turn

C1_Step == ret' = "False" => game' = game

\* C1: make_move returns false and changes nothing of the game (board,
\* owners, filled count, turn, scores, lines, flags) when the game is over,
\* the letter is EMPTY, the coordinate is out of bounds or the cell is
\* occupied; the same owner can then make a valid move.
C1_RejectedMoveChangesNothing == [] C1_Query /\ [][C1_Step]_vars

\* a move was rejected in the middle of a game
C1_Witness ==
    /\ ret = "False"
    /\ ~game.is_over
    /\ game.board.filled_count > 0
    /\ game.current_turn = RED

\* C2: an accepted move that completes exactly k distinct S-O-S lines raises
\* the mover's score by exactly k and leaves the other score unchanged.
C2_ScorePerCompletedLine ==
    [][Moved =>
        /\ game'.score[game.current_turn] = game.score[game.current_turn] + Completed
        /\ game'.score[Other(game.current_turn)] = game.score[Other(game.current_turn)]]_vars

\* C3: the pattern list never holds two SOSLines covering the same three
\* cells, in either orientation.
C3_EachLineOnce ==
    \A i, j \in 1..Len(game.lines) :
        i # j => LineCells(game.lines[i]) # LineCells(game.lines[j])

\* C4: every S-O-S triple on the board (any axis, whichever of its cells
\* was placed last) is covered by a recorded SOSLine with the O as middle.
C4_DetectionComplete ==
    \A t \in SOSTriples(game.board) :
        \E i \in 1..Len(game.lines) :
            /\ LineCells(game.lines[i]) = TripleCells(t)
            /\ <<game.lines[i].r2, game.lines[i].c2>> = t[2]

\* three or more S-O-S lines stand on the board
C4_Witness == Cardinality(SOSTriples(game.board)) >= 3

C6_Parity ==
    (game.kind = SIMPLE /\ ~game.is_over) =>
        (game.current_turn = BLUE <=> game.board.filled_count % 2 = 0)

C6_Step ==
    (Moved /\ game.kind = SIMPLE /\ Completed = 0) =>
        game'.current_turn = Other(game.current_turn)

\* C6: in a SimpleGame every accepted move that forms no line passes the
\* turn, and while the game is in progress the turn is BLUE iff the number
\* of filled cells is even.
C6_SimpleTurnsAlternate == [] C6_Parity /\ [][C6_Step]_vars

\* a SimpleGame in progress after five moves, RED to move
C6_Witness ==
    /\ game.kind = SIMPLE
    /\ ~game.is_over
    /\ game.board.filled_count = 5
    /\ game.current_turn = RED

\* C7: in a GeneralGame an accepted move that completes a line keeps the
\* turn, and one that completes none passes it (the move that fills the
\* last cell is left open).
C7_GeneralExtraTurn ==
    [][(Moved /\ game.kind = GENERAL) =>
        /\ Completed > 0 => game'.current_turn = game.current_turn
        /\ (Completed = 0 /\ ~Full(game'.board)) =>
               game'.current_turn = Other(game.current_turn)]_vars

\* a GeneralGame in progress where the owner of the latest line moves again
C7_Witness ==
    /\ game.kind = GENERAL
    /\ ~game.is_over
    /\ ret = "True"
    /\ game.lines # << >>
    /\ game.lines[Len(game.lines)].owner = game.current_turn
    /\ game.board.filled_count % 2 = 1
    /\ game.current_turn = BLUE

\* the outcome the scores decide
Decided(g) ==
    /\ g.is_over
    /\ g.score[BLUE] > g.score[RED] => (g.winner = BLUE /\ ~g.is_draw)
    /\ g.score[RED] > g.score[BLUE] => (g.winner = RED /\ ~g.is_draw)
    /\ g.score[BLUE] = g.score[RED] => (g.winner = None /\ g.is_draw)

\* C8: in a GeneralGame the move that fills the last cell decides the
\* outcome from the scores including that move's points (higher score wins,
\* equal scores draw), and the flags change at no other move.
C8_GeneralDecidedWhenFull ==
    [][game.kind = GENERAL =>
        /\ (Moved /\ Full(game'.board)) => Decided(game')
        /\ (Moved /\ ~Full(game'.board)) =>
               (~game'.is_over /\ game'.winner = None /\ ~game'.is_draw)
        /\ (~game.is_over /\ game'.is_over) => (Moved /\ Full(game'.board))]_vars

\* a GeneralGame that RED won on points, BLUE having scored too
C8_Witness ==
    /\ game.kind = GENERAL
    /\ game.is_over
    /\ game.winner = RED
    /\ game.score[RED] > game.score[BLUE]
    /\ game.score[BLUE] > 0

C10_TerminalFlags ==
    /\ ~(game.is_draw /\ game.winner # None)
    /\ ~game.is_over => (game.winner = None /\ ~game.is_draw)
    /\ game.is_over => ((game.winner # None) # game.is_draw)

\* a game in progress on an instance restarted with the other mode
C10_Witness ==
    /\ game.mode # game.kind
    /\ ~game.is_over
    /\ game.board.filled_count > 0
    /\ game.winner = None

\* C11: on a finished game every make_move returns false and leaves the
\* whole game as it is (flags, winner, scores, board, lines, turn); the game
\* leaves the finished state only by a start_new_game that returns.
C11_OverIsFinal ==
    [][game.is_over =>
        /\ ret' \in {"True", "False"} => (ret' = "False" /\ game' = game)
        /\ ~game'.is_over => ret' = None]_vars

\* a move was refused on a finished game that has empty cells left
C11_Witness ==
    /\ game.is_over
    /\ ret = "False"
    /\ ~Full(game.board)

\* a game as it is right after construction, on a board of size sz
Fresh(g, sz) ==
    /\ g.board.n = sz
    /\ DOMAIN g.board.grid = 0..(sz - 1)
    /\ DOMAIN g.board.owner = 0..(sz - 1)
    /\ \A r \in 0..(sz - 1) :
           /\ DOMAIN g.board.grid[r] = 0..(sz - 1)
           /\ DOMAIN g.board.owner[r] = 0..(sz - 1)
           /\ \A c \in 0..(sz - 1) :
                  g.board.grid[r][c] = EMPTY /\ g.board.owner[r][c] = None
    /\ g.board.filled_count = 0
    /\ g.score[BLUE] = 0 /\ g.score[RED] = 0
    /\ g.lines = << >>
    /\ g.current_turn = BLUE
    /\ ~g.is_over /\ g.winner = None /\ ~g.is_draw

\* C12: from any reachable state start_new_game with a size >= 3, or with
\* no size, gives an empty board of that size, no owners, filled count 0,
\* scores 0, no lines, BLUE to move and no flag set; a constructed game is
\* in the same state.
C12_NewGameIsFresh ==
    /\ ret \in {"init", None} => Fresh(game, game.board.n)
    /\ \A m \in {None} \cup GameModes :
           /\ \A sz \in 3..(DefaultSize + 1) :
                  LET res == start_new_game(game, <<sz>>, m)
                  IN  res.ret = None /\ Fresh(res.self, sz)
           /\ LET res == start_new_game(game, << >>, m)
               IN  res.ret = None /\ Fresh(res.self, game.board.n)

\* a game restarted with the other mode, nothing played yet
C12_Witness ==
    /\ ret = None
    /\ game.mode # game.kind

\* C13: no reachable game has a board of size <= 2: the constructor and
\* start_new_game raise ValueError for such a size instead of returning.
C13_NoSmallBoard ==
    /\ game.board.n > 2
    /\ \A sz \in 0..2 :
           /\ size_raises(sz)
           /\ \A m \in {None} \cup GameModes :
                  LET res == start_new_game(game, <<sz>>, m)
                  IN  res.ret = "ValueError" /\ res.self.board = game.board

\* a restart with size 2 was refused in the middle of a game
C13_Witness ==
    /\ ret = "ValueError"
    /\ game.board.filled_count > 0
    /\ game.board.n = DefaultSize

\* make_move as the class named by the mode attribute would perform it
MoveByMode(g, r, c, letter) ==
    LET res == make_move([g EXCEPT !.kind = g.mode], r, c, letter)
    IN  [ret |-> res.ret, self |-> [res.self EXCEPT !.kind = g.kind]]

\* C14: the post-move policy make_move applies is the one of the game's
\* mode attribute, also after start_new_game was given a mode.
C14_PolicyFollowsMode ==
    \A rc \in Cells(game.board), letter \in {S, O} :
        make_move(game, rc[1], rc[2], letter) = MoveByMode(game, rc[1], rc[2], letter)

\* the cells of the board that are not empty
Filled(b) == { rc \in Cells(b) : LetterAt(b, rc) # EMPTY }

C15_Query ==
    \A r \in -1..game.board.n, c \in -1..game.board.n, letter \in {S, O}, who \in Players :
        LET b == game.board
            res == place(b, r, c, letter, who)
        IN  IF in_bounds(b, r, c) /\ b.grid[r][c] = EMPTY
            THEN /\ res.ok
                 /\ res.board.grid[r][c] = letter
                 /\ res.board.owner[r][c] = who
                 /\ res.board.filled_count = b.filled_count + 1
                 /\ \A rc \in Cells(b) \ {<<r, c>>} :
                        /\ LetterAt(res.board, rc) = LetterAt(b, rc)
                        /\ res.board.owner[rc[1]][rc[2]] = b.owner[rc[1]][rc[2]]
                 /\ \A l2 \in Letters, w2 \in Players :
                        place(res.board, r, c, l2, w2) = [ok |-> FALSE, board |-> res.board]
            ELSE res = [ok |-> FALSE, board |-> b]

\* C15: Board.place on an in-bounds empty cell with S or O returns true,
\* sets letter and owner and adds 1 to the filled count; every later place
\* at that cell, and every place out of bounds (negative indexes too),
\* returns false and changes nothing.
C15_PlaceOnce == C15_Query

\* a board in the middle of a game: occupied and empty cells
C15_Witness ==
    /\ ret = "True"
    /\ game.board.filled_count = 4
    /\ ~game.is_over

C16_Count == game.board.filled_count = Cardinality(Filled(game.board))

C16_Step ==
    /\ ret' = "True" => game'.board.filled_count = game.board.filled_count + 1
    /\ ret' = None => game'.board.filled_count = 0
    /\ ret' \notin {"True", None} => game'.board.filled_count = game.board.filled_count

\* C16: the filled count equals the number of non-empty cells; an accepted
\* move adds exactly 1, a start_new_game that returns sets it to 0, and no
\* other step changes it.
C16_FilledCount == [] C16_Count /\ [][C16_Step]_vars

\* the first move of a game begun by start_new_game with the other mode
C16_Witness ==
    /\ ret = "True"
    /\ game.board.filled_count = 1
    /\ game.mode # game.kind

\* C17: a cell's letter is EMPTY exactly when its owner is None.
C17_EmptyIffNoOwner ==
    \A rc \in Cells(game.board) :
        LetterAt(game.board, rc) = EMPTY <=> game.board.owner[rc[1]][rc[2]] = None

\* a board holding cells of both owners and empty cells
C17_Witness ==
    /\ \E rc \in Cells(game.board) : game.board.owner[rc[1]][rc[2]] = BLUE
    /\ \E rc \in Cells(game.board) : game.board.owner[rc[1]][rc[2]] = RED
    /\ \E rc \in Cells(game.board) : game.board.owner[rc[1]][rc[2]] = None

\* C18: every SOSLine an accepted move appends contains the placed cell
\* (the last placed of its three cells) and is credited to the mover, the
\* owner of that cell, whoever placed the other two cells.
C18_CreditToMover ==
    [][Moved =>
        /\ Len(game'.lines) >= Len(game.lines)
        /\ \A i \in (Len(game.lines) + 1)..Len(game'.lines) :
               /\ PlacedCell \in LineCells(game'.lines[i])
               /\ game'.lines[i].owner = game.current_turn
               /\ game'.lines[i].owner = game'.board.owner[PlacedCell[1]][PlacedCell[2]]]_vars

\* a recorded line whose other two cells were both placed by the opponent
C18_Witness ==
    \E i \in 1..Len(game.lines) :
        Cardinality({ rc \in LineCells(game.lines[i]) :
            game.board.owner[rc[1]][rc[2]] # game.lines[i].owner }) = 2

C19_Query == \A ident \in Players : choose_move(game, ident).game = game

C19_Step == ret' \in {"Move", "NoMove"} => game' = game

\* C19: choose_move, with all its probes, for either identity and whoever
\* has the turn, leaves the game exactly as it was: letters, owners, filled
\* count, turn, scores, lines and flags.
C19_ChooseMoveLeavesGame == [] C19_Query /\ [][C19_Step]_vars

\* a move was chosen in the middle of a GeneralGame with lines on the board
C19_Witness ==
    /\ ret = "Move"
    /\ ~game.is_over
    /\ game.lines # << >>
    /\ game.board.filled_count >= 4

\* the letter a cell of the board shows once letter l is put on cell rc
LetterWith(b, rc, l, at) == IF at = rc THEN l ELSE LetterAt(b, at)

\* the empty cells and letters that would complete an S-O-S line, as
\* <<row-major index, letter>>
ScoringMoves(b) ==
    LET T == Triples(b)
    IN  { il \in EmptyIndexes(b) \X {S, O} :
            LET rc == <<il[1] \div b.n, il[1] % b.n>>
            IN  \E t \in T :
                    /\ rc \in TripleCells(t)
                    /\ LetterWith(b, rc, il[2], t[1]) = S
                    /\ LetterWith(b, rc, il[2], t[2]) = O
                    /\ LetterWith(b, rc, il[2], t[3]) = S }

\* the position of a move in the order "row-major, S before O"
Rank(il) == 2 * il[1] + (IF il[2] = S THEN 0 ELSE 1)

\* the first of the moves sm in that order, as <<r, c, letter>>
FirstScoring(sm, n) ==
    LET il == CHOOSE m \in sm : \A k \in sm : Rank(m) <= Rank(k)
    IN  <<il[1] \div n, il[1] % n, il[2]>>

\* C20, for one player identity and the scoring moves sm of the board
C20_For(ident, sm) ==
    LET mv == choose_move(game, ident).move
        b == game.board
    IN  /\ sm # {} =>
            /\ mv = FirstScoring(sm, b.n)
            /\ (game.kind = SIMPLE /\ ~game.is_over /\ game.current_turn = ident) =>
                LET done == make_move(game, mv[1], mv[2], mv[3])
                IN  /\ done.ret
                    /\ done.self.is_over
                    /\ done.self.winner = ident
        /\ (sm = {} /\ EmptyIndexes(b) # {}) =>
            mv = <<FirstEmpty(b)[1], FirstEmpty(b)[2], S>>

\* C20: when some empty cell and letter would complete an S-O-S line,
\* choose_move returns the first such move in row-major order, S before O,
\* and on that player's turn in a SimpleGame playing it ends the game with
\* that player as winner; when there is none it returns the first empty cell
\* with the letter S.
C20_ChoosesFirstScoringMove ==
    LET sm == ScoringMoves(game.board)
    IN  \A ident \in Players : C20_For(ident, sm)

\* a move was chosen in a running SimpleGame where the first scoring cell
\* scores with either letter
C20_Witness ==
    LET sm == ScoringMoves(game.board)
    IN  /\ ret = "Move"
        /\ game.kind = SIMPLE
        /\ ~game.is_over
        /\ \E i \in EmptyIndexes(game.board) :
            /\ <<i, S>> \in sm
            /\ <<i, O>> \in sm
            /\ FirstScoring(sm, game.board.n) =
                   <<i \div game.board.n, i % game.board.n, S>>

\* C23: a GeneralGame is over exactly when the board is full; lines formed
\* while an empty cell remains do not end it.
C23_GeneralOverIffFull ==
    game.kind = GENERAL => (game.is_over <=> Full(game.board))

\* a GeneralGame going on with lines of both players on the board
C23_Witness ==
    /\ game.kind = GENERAL
    /\ ~game.is_over
    /\ game.score[BLUE] > 0
    /\ game.score[RED] > 0
    /\ ~Full(game.board)

C24_Inv ==
    /\ game.board.filled_count <= game.board.n * game.board.n
    /\ Full(game.board) => game.is_over
    /\ ~game.is_over =>
           /\ EmptyIndexes(game.board) # {}
           /\ LET rc == FirstEmpty(game.board)
              IN  make_move(game, rc[1], rc[2], O).ret

C24_Step ==
    ret' = "True" =>
        /\ game'.board.filled_count = game.board.filled_count + 1
        /\ Cardinality(EmptyIndexes(game'.board)) =
               Cardinality(EmptyIndexes(game.board)) - 1

\* C24: every accepted move fills one more cell, a game that is not over
\* has an empty cell and a move that is accepted, and under both classes the
\* game is over at the latest when n*n moves were accepted (the board is
\* full).
C24_GameTerminates == [] C24_Inv /\ [][C24_Step]_vars

\* the ninth move closed a GeneralGame with equal scores
C24_Witness ==
    /\ ret = "True"
    /\ game.kind = GENERAL
    /\ Full(game.board)
    /\ game.is_over
    /\ game.is_draw

\* a recorded line is a triple of in-bounds cells along one axis reading
\* S, O, S on the board
ValidLine(b, ln) ==
    LET s == <<ln.r1, ln.c1>>
        m == <<ln.r2, ln.c2>>
        e == <<ln.r3, ln.c3>>
    IN  /\ {s, m, e} \subseteq Cells(b)
        /\ Cardinality({s, m, e}) = 3
        /\ \E d \in AXES :
               \/ m = <<s[1] + d[1], s[2] + d[2]>> /\ e = <<s[1] + 2 * d[1], s[2] + 2 * d[2]>>
               \/ m = <<s[1] - d[1], s[2] - d[2]>> /\ e = <<s[1] - 2 * d[1], s[2] - 2 * d[2]>>
        /\ LetterAt(b, s) = S
        /\ LetterAt(b, m) = O
        /\ LetterAt(b, e) = S

\* C25: every line of the list is made of three distinct in-bounds cells,
\* the middle one step from the start and the end one step further along a
\* horizontal, vertical or diagonal axis, and the board reads S, O, S there;
\* this includes the lines found from cells on edges and in corners.
C25_LinesWellFormed ==
    \A i \in 1..Len(game.lines) : ValidLine(game.board, game.lines[i])

\* a line completed by an S put in a corner, recorded from that corner
C25_Witness ==
    /\ ret = "True"
    /\ game.lines # << >>
    /\ LET ln == game.lines[Len(game.lines)]
       IN  /\ ln.r3 \in {0, game.board.n - 1}
           /\ ln.c3 \in {0, game.board.n - 1}
           /\ ln.r1 # ln.r3
           /\ ln.c1 # ln.c3

C26_Query ==
    ~game.is_over =>
        \A rc \in Cells(game.board), letter \in {S, O} :
            is_empty(game.board, rc[1], rc[2]) =>
                LET res == make_move(game, rc[1], rc[2], letter)
                    who == game.current_turn
                IN  /\ res.ret
                    /\ LetterAt(res.self.board, rc) = letter
                    /\ res.self.board.owner[rc[1]][rc[2]] = who
                    /\ \A o \in Cells(game.board) \ {rc} :
                           /\ LetterAt(res.self.board, o) = LetterAt(game.board, o)
                           /\ res.self.board.owner[o[1]][o[2]] = game.board.owner[o[1]][o[2]]
                    /\ res.self.board.n = game.board.n
                    /\ res.self.score[Other(who)] = game.score[Other(who)]

C26_Step ==
    ret' = "True" =>
        /\ game'.board.n = game.board.n
        /\ game'.score[Other(game.current_turn)] = game.score[Other(game.current_turn)]
        /\ \E rc \in Cells(game.board) :
               /\ LetterAt(game.board, rc) = EMPTY
               /\ LetterAt(game'.board, rc) \in {S, O}
               /\ game'.board.owner[rc[1]][rc[2]] = game.current_turn
               /\ \A o \in Cells(game.board) \ {rc} :
                      /\ LetterAt(game'.board, o) = LetterAt(game.board, o)
                      /\ game'.board.owner[o[1]][o[2]] = game.board.owner[o[1]][o[2]]

\* C26: an accepted make_move(r, c, letter) changes exactly one cell: (r, c)
\* gets the letter and the owner who had the turn; all other letters and
\* owners, the board size and the score of the other player are unchanged.
C26_OneCellChanges == [] C26_Query /\ [][C26_Step]_vars

\* RED completed a line on a board that already held BLUE's line
C26_Witness ==
    /\ ret = "True"
    /\ game.lines # << >>
    /\ game.lines[Len(game.lines)].owner = RED
    /\ game.score[BLUE] > 0

\* a is a prefix of b
IsPrefix(a, b) == Len(a) <= Len(b) /\ SubSeq(b, 1, Len(a)) = a

C27_Step == ret' # None => IsPrefix(game.lines, game'.lines)

\* C27: after a make_move, accepted or rejected, the old list of lines is a
\* prefix of the new one; only a start_new_game that returns removes lines.
C27_LinesAppendOnly == [][C27_Step]_vars

\* a move was rejected in a game whose lines were formed by both players
C27_Witness ==
    /\ ret = "False"
    /\ Len(game.lines) >= 4
    /\ game.score[BLUE] > 0
    /\ game.score[RED] > 0

\* C28: in a SimpleGame that was won the winner's score is the length of
\* the list of lines and the other score is 0; while it is going on both
\* scores are 0 and the list is empty.
C28_SimpleScores ==
    game.kind = SIMPLE =>
        /\ (game.is_over /\ game.winner # None) =>
               /\ game.score[game.winner] = Len(game.lines)
               /\ Len(game.lines) >= 1
               /\ game.score[Other(game.winner)] = 0
        /\ ~game.is_over =>
               /\ game.score = [p \in Players |-> 0]
               /\ game.lines = << >>

\* a SimpleGame won by a move that formed two lines at once
C28_Witness ==
    /\ game.kind = SIMPLE
    /\ game.is_over
    /\ game.winner # None
    /\ Cardinality({LineCells(game.lines[i]) : i \in 1..Len(game.lines)}) >= 2

C21_Inv ==
    /\ \A ident \in Players :
           choose_move(game, ident).move = NoMove => Full(game.board)
    /\ ~game.is_over =>
           LET mv == choose_move(game, game.current_turn).move
           IN  /\ mv # NoMove
               /\ make_move(game, mv[1], mv[2], mv[3]).ret

\* C21: while the game is not over choose_move for the player on turn
\* returns a move and make_move accepts it; choose_move returns None only
\* on a full board; so a game that computer players play, from the empty
\* board or from any opening, reaches game over.
C21_ComputerGameEnds == [] C21_Inv /\ <>(game.is_over)

\* the end of the GeneralGame two computer players play from the empty
\* board: a board full of S
C21_Witness ==
    /\ ret = "True"
    /\ game.kind = GENERAL
    /\ game.is_over
    /\ \A rc \in Cells(game.board) : LetterAt(game.board, rc) = S

\* ------------------------------------------------------------------
\* C22: recording and replay
\* ------------------------------------------------------------------
RECURSIVE ReplayRest(_, _)
\* a replayed move: the game after it, whether make_move accepted every
\* move so far, and whether every forced owner was the turn the engine
\* already had
ReplayMade(st, moves, res, same_turn) ==
    ReplayRest([game |-> res.self,
                accepted |-> st.accepted /\ res.ret,
                same_turn |-> st.same_turn /\ same_turn],
               Tail(moves))

\* _replay_next_move applied to the moves one after another
ReplayRest(st, moves) ==
    IF moves = << >>
    THEN st
    ELSE ReplayMade(st, moves, replay_move(st.game, Head(moves)),
                    Head(moves).player = st.game.current_turn)

\* the replay of a loaded recording on the fresh game on_replay makes
Replayed(data) ==
    ReplayRest([game |-> start_new_game(make_game(data.size[1], data.mode),
                                        data.size, data.mode).self,
                accepted |-> TRUE,
                same_turn |-> TRUE],
               data.moves)

\* the replay that is running, carried on to its end
ReplayCompleted ==
    ReplayRest([game |-> game, accepted |-> TRUE, same_turn |-> TRUE],
               app.replay_rest)

\* scores, flags and board contents agree
SameOutcome(g, h) ==
    /\ g.score = h.score
    /\ g.winner = h.winner
    /\ g.is_draw = h.is_draw
    /\ g.is_over = h.is_over
    /\ g.board.n = h.board.n
    /\ g.board.grid = h.board.grid
    /\ g.board.owner = h.board.owner

\* the file the recorder writes or has written, loaded
Recorded == load_recording(app.recorder.file)

C22_Loaded(data, rp) ==
    /\ ~data.raised
    /\ rp.accepted
    /\ rp.same_turn
    /\ IF app.replay_active
       THEN /\ ReplayCompleted.accepted
            /\ ReplayCompleted.same_turn
            /\ SameOutcome(ReplayCompleted.game, rp.game)
       ELSE /\ data.size = <<game.board.n>>
            /\ data.mode = game.mode
            /\ rp.game.kind = game.kind
            /\ SameOutcome(rp.game, game)

C22_Replay(data) == C22_Loaded(data, Replayed(data))

\* C22: the file of a recorded game loads, and replaying its moves on a
\* fresh game of the recorded size and mode, the turn forced to the
\* recorded owner before each make_move, has every move accepted, forces
\* only the turn the engine already had, and ends with the scores, the
\* winner, draw and game-over flags and the board (letters and owners) of
\* the game played; a replay the window is running ends in that game too.
C22_RoundTrip ==
    app.recorder.file # << >> => C22_Replay(Recorded)

\* the replay of a recorded GeneralGame played to a full board has applied
\* all moves but the last, letters O and scored lines among them
C22_Witness ==
    /\ app.replay_active
    /\ Len(app.replay_rest) = 1
    /\ Len(Recorded.moves) = game.board.n * game.board.n
    /\ game.kind = GENERAL
    /\ ~game.is_over
    /\ game.lines # << >>
    /\ \E rc \in Cells(game.board) : LetterAt(game.board, rc) = O
    /\ Replayed(Recorded).game.is_over

\* ------------------------------------------------------------------
\* C29: the RESULT line
\* ------------------------------------------------------------------
\* the text GameRecorder.finish writes for the game on the board
ResultText == IF game.is_draw THEN "DRAW" ELSE game.winner

C29_Line(file, i) ==
    file[i][1] = "RESULT:" =>
        /\ i = Len(file)
        /\ file[i][2] \in Players \cup {"DRAW"}
        /\ ~app.recorder.active
        /\ ~app.replay_active => game.is_over /\ file[i][2] = ResultText

\* C29: a game that is over is a draw or has a winner, so the RESULT line
\* the window has the recorder write at the end of a game, the last line
\* of the file, holds BLUE, RED or DRAW, the outcome of the game, and
\* never UNKNOWN.
C29_ResultNamed ==
    /\ game.is_over => game.is_draw \/ game.winner # None
    /\ \A i \in 1..Len(app.recorder.file) : C29_Line(app.recorder.file, i)

\* the recording of a GeneralGame RED has won is closed
C29_Witness ==
    /\ ~app.replay_active
    /\ ~app.recorder.active
    /\ app.recorder.file # << >>
    /\ app.recorder.file[Len(app.recorder.file)] = <<"RESULT:", RED>>
    /\ game.kind = GENERAL
    /\ game.winner = RED

\* ------------------------------------------------------------------
\* C30: computer moves are automatic
\* ------------------------------------------------------------------
\* a handler of a cell click, of New Game or of the player-type radio
\* buttons has run
C30_Handled == OnCellClick \/ OnNewGame \/ UpdatePlayerTypes

C30_Step ==
    C30_Handled =>
        (~app'.replay_active /\ ~game'.is_over
             => is_human(app', game'.current_turn))

\* C30: outside replay, when the handler of a cell click, of New Game or
\* of a change of player type has completed, the game is over or the
\* player on turn is a human.
C30_ComputerMovesAutomatic == [][C30_Step]_vars

\* ------------------------------------------------------------------
\* C31: the scores count the lines
\* ------------------------------------------------------------------
\* the number of entries of self.lines that p owns
LinesOf(p) == Cardinality({i \in 1..Len(game.lines) : game.lines[i].owner = p})

\* C31: the score of each player is the number of entries of the list of
\* lines that player owns; the two scores add up to the length of the list.
C31_ScoreCountsLines ==
    /\ \A p \in Players : game.score[p] = LinesOf(p)
    /\ game.score[BLUE] + game.score[RED] = Len(game.lines)

\* a GeneralGame in which both players have scored, BLUE more than RED
C31_Witness ==
    /\ ret = "True"
    /\ game.kind = GENERAL
    /\ game.score[RED] > 0
    /\ game.score[BLUE] > game.score[RED]
    /\ LinesOf(RED) > 0

\* ------------------------------------------------------------------
\* C32: a start_new_game that raises
\* ------------------------------------------------------------------
C32_Step == ret' = "ValueError" => game' = game

\* C32: a call of start_new_game that raises ValueError for a size <= 2
\* leaves the game as it was: the mode, the board, the scores, the turn,
\* the list of lines and the flags winner, is_draw and is_over.
C32_FailedNewGameChangesNothing == [][C32_Step]_vars

\* ------------------------------------------------------------------
\* C33: the end of a game is handled once
\* ------------------------------------------------------------------
\* the handler of a cell click or of New Game has run and left a game
\* that is over: the game ended in this handler, by a human's move or by a
\* computer's
C33_Ended == (OnCellClick \/ OnNewGame) /\ game'.is_over

C33_Step == C33_Ended => app'.results_shown = 1

\* C33: when a game played in the window ends, outside replay,
\* _handle_game_end has run exactly once for it when the handler returns,
\* whoever made the last move.
C33_EndHandledOnce == [][C33_Step]_vars

\* ------------------------------------------------------------------
\* C34: what the recorder writes
\* ------------------------------------------------------------------
\* a line PLAYER,row,col,letter of a recording
IsMoveLine(line) == Len(line) = 4

\* the move a line of the log stands for
MoveOf(line) ==
    [player |-> line[1], row |-> StrToInt(line[2]),
     col |-> StrToInt(line[3]), letter |-> line[4]]

\* the moves of the lines mv made one after another from the game g
Played(g, mv) ==
    ReplayRest([game |-> g, accepted |-> TRUE, same_turn |-> TRUE],
               [i \in 1..Len(mv) |-> MoveOf(mv[i])])

\* the lines written while the game went from g to h: one line for each
\* move make_move accepted, in the order of play and with the owner who
\* held the turn, and after them at most the RESULT line that closes the
\* recording
C34_Written(g, h, entries, mv, active_after) ==
    /\ Len(entries) <= Len(mv) + 1
    /\ SubSeq(entries, 1, Len(mv)) = mv
    /\ Len(entries) = Len(mv) + 1 =>
           entries[Len(entries)][1] = "RESULT:" /\ ~active_after
    /\ Len(mv) = h.board.filled_count - g.board.filled_count
    /\ Played(g, mv).accepted
    /\ Played(g, mv).same_turn
    /\ Played(g, mv).game = h

C34_Log(g, h, entries, active_after) ==
    C34_Written(g, h, entries, SelectSeq(entries, IsMoveLine), active_after)

\* the header and the fresh game of a recording that New Game starts
C34_Started(f2) ==
    /\ OnNewGame
    /\ Len(f2) >= 6
    /\ SubSeq(f2, 1, 6) =
           recorder_start(NewRecorder, game'.board.n, game'.mode,
                          app'.blue_type, app'.red_type).file
    /\ C34_Log(start_new_game(make_game(game'.board.n, game'.mode),
                              <<game'.board.n>>, game'.mode).self,
               game', SubSeq(f2, 7, Len(f2)), app'.recorder.active)

\* the file before and after a step: a recorder that is stopped and has
\* written nothing, a recording that goes on or is finished, a file put
\* away, or a recording that starts
C34_Files(f, f2) ==
    IF ~app'.recorder.active /\ f2 = f
    THEN TRUE
    ELSE IF app.recorder.active /\ IsPrefix(f, f2)
    THEN C34_Log(game, game', SubSeq(f2, Len(f) + 1, Len(f2)),
                 app'.recorder.active)
    ELSE IF f2 = << >>
    THEN ~app'.recorder.active
    ELSE C34_Started(f2)

C34_Step == C34_Files(app.recorder.file, app'.recorder.file)

\* C34: while a recording is active every handler appends to it exactly
\* the moves make_move accepted in that handler, in the order of play,
\* each with the owner who held the turn before the move; a rejected click
\* and a replayed move write nothing; once the recording was finished or
\* deactivated nothing more is written to it, the next lines written
\* belong to a recording New Game starts.
C34_LogIsAcceptedMoves == [][C34_Step]_vars

\* a recording of a GeneralGame of a human and a computer player is
\* active and holds moves of both
C34_Witness ==
    /\ app.recorder.active
    /\ ~app.replay_active
    /\ game.kind = GENERAL
    /\ app.blue_type # app.red_type
    /\ Len(app.recorder.file) >= 10
    /\ \E i, j \in 7..Len(app.recorder.file) :
           /\ app.recorder.file[i][1] = BLUE
           /\ app.recorder.file[j][1] = RED

====
